---------------------------- MODULE Spec2Model ----------------------------
(***************************************************************************)
(* Model of the UmbracoForm progression controller                         *)
(* (src/src/components/UmbracoForm.tsx, first revision in the file), the   *)
(* form tree accessor (field-utils.ts), the schema builder                 *)
(* (umbraco-form-to-zod.ts) and the condition evaluator (predicates.ts).   *)
(*                                                                         *)
(* A JavaScript value is a record [t, s]: t is the typeof tag and s the    *)
(* result of String(value), so === is record equality and String() is .s.  *)
(* State updates queued by one handler are applied atomically with the     *)
(* handler; the deferred snapshot (useDeferredValue) is a separate         *)
(* variable that catches up in its own step.                               *)
(***************************************************************************)
EXTENDS Integers, Sequences, FiniteSets, TLC

(* ----------------------------- bounds ---------------------------------- *)
\* attemptCount grows without limit in the code; events stop being offered
\* once it reaches this value.
MaxAttempt == 2
\* the page index grows without limit in the code; next-page stops being
\* offered once it reaches this value.
MaxPageIndex == 2

(* --------------------------- JS values --------------------------------- *)
Undefined == [t |-> "undefined", s |-> "undefined"]
Null == [t |-> "null", s |-> "null"]
Str(x) == [t |-> "string", s |-> x]
Bool(b) == [t |-> "boolean", s |-> IF b THEN "true" ELSE "false"]

RECURSIVE Join(_)
\* Array.prototype.join(","), the string form of an array of strings
Join(items) ==
  IF items = <<>> THEN ""
  ELSE IF Len(items) = 1 THEN items[1]
  ELSE items[1] \o "," \o Join(Tail(items))

\* an array of strings; s holds its string form, all the operators read
Arr(items) == [t |-> "array", s |-> Join(items)]

\* JS truthiness: !!value
Truthy(v) ==
  \/ v.t = "string" /\ v.s # ""
  \/ v.t = "boolean" /\ v.s = "true"
  \/ v.t = "array"

(* --------------------------- JS strings -------------------------------- *)
\* String.prototype.includes
Includes(s, sub) ==
  \E i \in 1..(Len(s) - Len(sub) + 1) : SubSeq(s, i, i + Len(sub) - 1) = sub

\* String.prototype.startsWith
StartsWith(s, sub) == Len(sub) <= Len(s) /\ SubSeq(s, 1, Len(sub)) = sub

\* String.prototype.endsWith
EndsWith(s, sub) ==
  Len(sub) <= Len(s) /\ SubSeq(s, Len(s) - Len(sub) + 1, Len(s)) = sub

UpperCaseLetters == "ABCDEFGHIJKLMNOPQRSTUVWXYZ"
LowerCaseLetters == "abcdefghijklmnopqrstuvwxyz"

\* the lower-case form of one character
LowerChar(c) ==
  IF \E i \in 1..Len(UpperCaseLetters) : SubSeq(UpperCaseLetters, i, i) = c
  THEN SubSeq(LowerCaseLetters,
              CHOOSE i \in 1..Len(UpperCaseLetters) : SubSeq(UpperCaseLetters, i, i) = c,
              CHOOSE i \in 1..Len(UpperCaseLetters) : SubSeq(UpperCaseLetters, i, i) = c)
  ELSE c

RECURSIVE ToLowerCase(_)
\* String.prototype.toLowerCase
ToLowerCase(s) == IF s = "" THEN "" ELSE LowerChar(Head(s)) \o ToLowerCase(Tail(s))

\* the characters of the values, in the order of their code units
CodeUnits == ",0123456789ABCDEFGHIJKLMNOPQRSTUVWXYZabcdefghijklmnopqrstuvwxyz"
Digits == "0123456789"

CharCode(c) == CHOOSE i \in 1..Len(CodeUnits) : SubSeq(CodeUnits, i, i) = c

RECURSIVE StringLess(_, _)
\* the relational comparison of two strings: by code units, a proper prefix
\* is smaller
StringLess(a, b) ==
  IF b = "" THEN FALSE
  ELSE IF a = "" THEN TRUE
  ELSE IF Head(a) = Head(b) THEN StringLess(Tail(a), Tail(b))
  ELSE CharCode(Head(a)) < CharCode(Head(b))

\* a JS number: NaN or an integer
NaN == [nan |-> TRUE, n |-> 0]
Num(n) == [nan |-> FALSE, n |-> n]

RECURSIVE DigitsValue(_, _)
\* the value of a string of decimal digits
DigitsValue(s, acc) ==
  IF s = "" THEN acc
  ELSE DigitsValue(Tail(s),
                   acc * 10 + (CHOOSE i \in 1..Len(Digits) : SubSeq(Digits, i, i) = Head(s)) - 1)

\* ToNumber of a primitive; the strings of the values hold no sign, blank
\* or fraction
ToNumber(v) ==
  CASE v.t = "boolean" -> Num(IF v.s = "true" THEN 1 ELSE 0)
    [] v.t = "null" -> Num(0)
    [] v.t = "undefined" -> NaN
    [] v.t = "string" ->
         IF \A i \in 1..Len(v.s) : \E d \in 1..Len(Digits) : SubSeq(Digits, d, d) = SubSeq(v.s, i, i)
         THEN Num(DigitsValue(v.s, 0))
         ELSE NaN

\* ToPrimitive: an array turns into its string form
ToPrimitive(v) == IF v.t = "array" THEN Str(v.s) ELSE v

NumberLess(nx, ny) == ~nx.nan /\ ~ny.nan /\ nx.n < ny.n

PrimitiveLess(px, py) ==
  IF px.t = "string" /\ py.t = "string"
  THEN StringLess(px.s, py.s)
  ELSE NumberLess(ToNumber(px), ToNumber(py))

\* a < b and a > b of JS: two strings compare by code units, anything else
\* as numbers, and a NaN operand makes the comparison false
JSLess(a, b) == PrimitiveLess(ToPrimitive(a), ToPrimitive(b))
JSGreater(a, b) == PrimitiveLess(ToPrimitive(b), ToPrimitive(a))

(* ------------------------- form definition ----------------------------- *)
NoCondition == [actionType |-> "undefined", logicType |-> "undefined", rules |-> <<>>]
Rule(fieldId, operator, value) == [field |-> fieldId, operator |-> operator, value |-> value]
Condition(actionType, logicType, rules) ==
  [actionType |-> actionType, logicType |-> logicType, rules |-> rules]

FormField(id, alias, type, required, pattern, condition) ==
  [id |-> id, alias |-> alias, type |-> type, required |-> required,
   pattern |-> pattern, condition |-> condition, maximumLength |-> -1,
   requiredErrorMessage |-> "Please provide a value for " \o alias,
   patternInvalidErrorMessage |-> "Please provide a valid value for " \o alias]
Column(fields) == [fields |-> fields]
Fieldset(columns, condition) == [columns |-> columns, condition |-> condition]
Page(fieldsets, condition) == [fieldsets |-> fieldsets, condition |-> condition]

\* Two pages; the first page has two columns. No conditions.
FormColumns ==
  [name |-> "FormColumns", showValidationSummary |-> TRUE,
   pages |-> <<
     Page(<< Fieldset(<< Column(<< FormField("f1", "name", "ShortAnswer", TRUE, "", NoCondition) >>),
                         Column(<< FormField("f2", "agree", "Checkbox", TRUE, "", NoCondition) >>) >>,
                      NoCondition) >>, NoCondition),
     Page(<< Fieldset(<< Column(<< FormField("f3", "more", "ShortAnswer", TRUE, "^a$", NoCondition) >>) >>,
                      NoCondition) >>, NoCondition) >>]

ToggleOn == << Rule("g1", "Is", Str("on")) >>

\* Three pages; the checkbox on the first page shows the second page, hides
\* the first fieldset of the third page and shows the last field. The form
\* has no validation summary.
FormConditions ==
  [name |-> "FormConditions", showValidationSummary |-> FALSE,
   pages |-> <<
     Page(<< Fieldset(<< Column(<< FormField("g1", "toggle", "Checkbox", FALSE, "", NoCondition) >>) >>,
                      NoCondition) >>, NoCondition),
     Page(<< Fieldset(<< Column(<< FormField("g2", "extra", "ShortAnswer", TRUE, "^a$", NoCondition) >>) >>,
                      NoCondition) >>,
          Condition("Show", "All", ToggleOn)),
     Page(<< Fieldset(<< Column(<< FormField("g3", "terms", "Checkbox", TRUE, "", NoCondition) >>) >>,
                      Condition("Hide", "Any", ToggleOn)),
             Fieldset(<< Column(<< FormField("g4", "code", "Checkbox", TRUE, "",
                                             Condition("Show", "All", ToggleOn)) >>) >>,
                      NoCondition) >>, NoCondition) >>]

\* Two pages; the checkbox on the second page hides the first page.
FormSkip ==
  [name |-> "FormSkip", showValidationSummary |-> TRUE,
   pages |-> <<
     Page(<< Fieldset(<< Column(<< FormField("h1", "intro", "ShortAnswer", FALSE, "", NoCondition) >>) >>,
                      NoCondition) >>,
          Condition("Hide", "All", << Rule("h2", "Is", Str("on")) >>)),
     Page(<< Fieldset(<< Column(<< FormField("h2", "skip", "Checkbox", FALSE, "", NoCondition),
                                   FormField("h3", "mail", "ShortAnswer", TRUE, "", NoCondition) >>) >>,
                      NoCondition) >>, NoCondition) >>]

FormSet == {FormColumns, FormConditions, FormSkip}

(* --------------------------- sequences --------------------------------- *)
RECURSIVE Concat(_)
\* Array.prototype.flat over a sequence of sequences
Concat(ss) == IF ss = <<>> THEN <<>> ELSE Head(ss) \o Concat(Tail(ss))

Range(s) == {s[i] : i \in DOMAIN s}

\* Array.prototype.indexOf, 1-based; 0 when absent
IndexOf(s, x) ==
  IF \E i \in DOMAIN s : s[i] = x
  THEN CHOOSE i \in DOMAIN s : s[i] = x /\ \A j \in 1..(i - 1) : s[j] # x
  ELSE 0

(* ------------------------ form tree accessor --------------------------- *)
\* A lookup that finds nothing returns undefined; its alias reads undefined.
NoField ==
  [id |-> "undefined", alias |-> "undefined", type |-> "undefined", required |-> FALSE,
   pattern |-> "", condition |-> NoCondition, maximumLength |-> -1,
   requiredErrorMessage |-> "undefined", patternInvalidErrorMessage |-> "undefined"]

ColumnsOfPage(page) == Concat([i \in DOMAIN page.fieldsets |-> page.fieldsets[i].columns])
FieldsOfColumns(columns) == Concat([i \in DOMAIN columns |-> columns[i].fields])

\* every field of the page, in document order
AllFieldsOfPage(page) == FieldsOfColumns(ColumnsOfPage(page))

\* the flattening of getAllFields and of umbracoFormToZod: page, fieldset,
\* column, field
FlattenFields(f) == Concat([p \in DOMAIN f.pages |-> AllFieldsOfPage(f.pages[p])])

\* Array.from(idMap.values()): one entry per distinct non-empty id, at the
\* position of the id's first occurrence, holding the last field set for it
IdMapValues(fields) ==
  LET firsts == SelectSeq([i \in DOMAIN fields |-> i],
                          LAMBDA i : fields[i].id # "" /\ \A j \in 1..(i - 1) : fields[j].id # fields[i].id)
      lastOf(id) == fields[CHOOSE i \in DOMAIN fields :
                             fields[i].id = id /\ \A j \in (i + 1)..Len(fields) : fields[j].id # id]
  IN [k \in DOMAIN firsts |-> lastOf(fields[firsts[k]].id)]

\* getAllFields: cached is "cachedForms.has(form)"
getAllFields(f, cached) ==
  IF cached THEN IdMapValues(FlattenFields(f)) ELSE FlattenFields(f)

\* Array.prototype.find
Find(fields, P(_)) ==
  IF \E i \in DOMAIN fields : P(fields[i])
  THEN fields[CHOOSE i \in DOMAIN fields : P(fields[i]) /\ \A j \in 1..(i - 1) : ~P(fields[j])]
  ELSE NoField

\* getFieldById: the id map holds, for each id, the field getAllFields lists
getFieldById(f, id, cached) == Find(getAllFields(f, cached), LAMBDA x : x.id = id)

\* cachedFieldsByAlias is never filled, so the lookup always scans getAllFields
getFieldByAlias(f, alias, cached) == Find(getAllFields(f, cached), LAMBDA x : x.alias = alias)

\* cachedFieldsByPage.get(page) after getAllFields has run: the entry is
\* overwritten once per column, so the last column's fields remain
CachedFieldsOfPage(columns) == columns[Len(columns)].fields

\* getAllFieldsOnPage of a page of the form
FieldsOnPage(columns, cached) ==
  IF cached /\ columns # <<>> THEN CachedFieldsOfPage(columns) ELSE FieldsOfColumns(columns)

\* getAllFieldsOnPage: pageIndex beyond the pages is the undefined page
getAllFieldsOnPage(f, pageIndex, cached) ==
  IF pageIndex + 1 \notin DOMAIN f.pages THEN <<>>
  ELSE FieldsOnPage(ColumnsOfPage(f.pages[pageIndex + 1]), cached)

(* --------------------------- schema builder ---------------------------- *)
StringTypes == {"ShortAnswer", "LongAnswer", "FileUpload", "DropdownList", "SingleChoice"}
BooleanTypes == {"Checkbox", "DataConsent", "Recaptcha2", "RecaptchaV3WithScore"}

\* the base zod type mapFieldToZod builds for the field
ZodBase(field) ==
  CASE field.type \in StringTypes -> "ZodString"
    [] field.type \in BooleanTypes -> "ZodBoolean"
    [] field.type = "MultipleChoice" -> "ZodArray"
    [] field.type = "Date" -> "ZodString"
    [] OTHER -> "undefined"

\* what a mapCustomFieldToZodType function does: none is passed, it returns
\* a zod type, it returns nothing, or it throws
CustomMappers == {"undefined", "returns", "returnsUndefined", "throws"}

\* the errors mapFieldToZod throws
MappingErrors == {"TypeError", "Error"}

\* mapFieldToZod with a custom mapper whose error is not caught and whose
\* empty result is passed on
mapFieldToZodUnchecked(field, custom) ==
  IF ZodBase(field) # "undefined" THEN ZodBase(field)
  ELSE IF custom = "undefined" THEN "TypeError"
  ELSE "ZodCustom"

\* mapFieldToZod: the zod type of the field, or the error it throws. A type
\* without a branch is handed to the custom mapper; its error is caught and
\* thrown again as an Error, and a type that is still undefined is a
\* TypeError.
mapFieldToZod(field, custom) ==
  IF ZodBase(field) # "undefined" THEN ZodBase(field)
  ELSE IF custom = "returns" THEN "ZodCustom"
  ELSE IF custom = "throws" THEN "Error"
  ELSE "TypeError"

\* the message of the error mapFieldToZod throws: both name the field type
mapFieldToZodMessage(field, custom) ==
  IF mapFieldToZod(field, custom) = "Error"
  THEN "Zod mapping failed for custom field: " \o field.type
  ELSE IF mapFieldToZod(field, custom) = "TypeError"
  THEN "Mapped zod type is undefined for field: " \o field.type
  ELSE ""

\* RegExp.test for the patterns used by the forms
RegexTest(pattern, s) ==
  CASE pattern = "^a$" -> s = "a"

\* a zod issue of the field
Issue(field, code, message) == [path |-> field.alias, code |-> code, message |-> message]

\* a string rule without the min(1) check of a required field
FieldIssuesNoMin(field, v) ==
  IF ~field.required /\ v = Undefined THEN <<>>
  ELSE IF ZodBase(field) = "ZodString"
  THEN (IF field.maximumLength >= 0 /\ Len(v.s) > field.maximumLength
        THEN << Issue(field, "too_big", field.patternInvalidErrorMessage) >> ELSE <<>>)
       \o (IF field.pattern # "" /\ ~RegexTest(field.pattern, v.s)
           THEN << Issue(field, "custom", field.patternInvalidErrorMessage) >> ELSE <<>>)
  ELSE IF field.required /\ ~Truthy(v)
       THEN << Issue(field, "custom", field.requiredErrorMessage) >>
       ELSE <<>>

\* the issues zod reports for one key of the object schema
FieldIssues(field, v) ==
  IF ~field.required /\ v = Undefined THEN <<>>
  ELSE IF ZodBase(field) = "ZodString"
  THEN (IF field.required /\ Len(v.s) < 1
        THEN << Issue(field, "too_small", field.requiredErrorMessage) >> ELSE <<>>)
       \o (IF field.maximumLength >= 0 /\ Len(v.s) > field.maximumLength
           THEN << Issue(field, "too_big", field.patternInvalidErrorMessage) >> ELSE <<>>)
       \o (IF field.pattern # "" /\ ~RegexTest(field.pattern, v.s)
           THEN << Issue(field, "custom", field.patternInvalidErrorMessage) >> ELSE <<>>)
  ELSE IF field.required /\ ~Truthy(v)
       THEN << Issue(field, "custom", field.requiredErrorMessage) >>
       ELSE <<>>

\* the keys an object literal holds after the fields were assigned in order
KeysOf(fields) ==
  LET keep == SelectSeq([i \in DOMAIN fields |-> i],
                        LAMBDA i : /\ fields[i].type # "TitleAndDescription"
                                   /\ fields[i].alias # ""
                                   /\ \A j \in 1..(i - 1) :
                                        fields[j].type = "TitleAndDescription"
                                        \/ fields[j].alias # fields[i].alias)
  IN [k \in DOMAIN keep |-> fields[keep[k]].alias]

\* the keys of the object schema, in insertion order
SchemaKeys(f) == KeysOf(FlattenFields(f))

\* the last field assigned under the key
LastWithAlias(fields, key) ==
  fields[CHOOSE i \in DOMAIN fields :
           /\ fields[i].alias = key /\ fields[i].type # "TitleAndDescription"
           /\ \A j \in (i + 1)..Len(fields) :
                fields[j].alias # key \/ fields[j].type = "TitleAndDescription"]

\* the field whose zod type the schema holds under the key (the last one wins)
SchemaField(f, key) == LastWithAlias(FlattenFields(f), key)

Aliases(f) == Range(SchemaKeys(f))

\* the issues of the keys, in the order of the keys
IssuesOfKeys(f, keys, data) ==
  Concat([k \in DOMAIN keys |-> FieldIssues(SchemaField(f, keys[k]), data[keys[k]])])

\* schema.safeParse(data).error.issues; empty when the parse succeeds. The
\* object is validated whole; the transform that omits invisible fields runs
\* only on a valid object.
SafeParseIssues(f, data) == IssuesOfKeys(f, SchemaKeys(f), data)

\* coerceRuleValue: for a boolean field "true"/"on" and "false"/"off" turn
\* into booleans and anything else into its truthiness; for any other field
\* the rule value is returned as it is
coerceRuleValue(field, value) ==
  IF ZodBase(field) = "ZodBoolean"
  THEN IF value.t = "string" /\ value.s \in {"true", "on"} THEN Bool(TRUE)
       ELSE IF value.t = "string" /\ value.s \in {"false", "off"} THEN Bool(FALSE)
       ELSE Bool(Truthy(value))
  ELSE value

(* ------------------------- condition evaluator ------------------------- *)
CaseSensitiveOperators ==
  {"Contains", "StartsWith", "EndsWith", "NotContains", "NotStartsWith", "NotEndsWith"}
IgnoreCaseOperators ==
  {"ContainsIgnoreCase", "StartsWithIgnoreCase", "EndsWithIgnoreCase",
   "NotContainsIgnoreCase", "NotStartsWithIgnoreCase", "NotEndsWithIgnoreCase"}
\* FieldConditionRuleOperator: the operators the switch has a case for
KnownOperators ==
  {"Is", "IsNot", "GreaterThen", "LessThen"} \cup CaseSensitiveOperators \cup IgnoreCaseOperators

\* a === b: an array is equal to itself only, and no rule value is an array
StrictEquals(a, b) == a.t # "array" /\ a = b

\* the string test of the operator on the string forms of both sides
StringTest(operator, s, sub) ==
  CASE operator \in {"Contains", "ContainsIgnoreCase"} -> Includes(s, sub)
    [] operator \in {"StartsWith", "StartsWithIgnoreCase"} -> StartsWith(s, sub)
    [] operator \in {"EndsWith", "EndsWithIgnoreCase"} -> EndsWith(s, sub)
    [] operator \in {"NotContains", "NotContainsIgnoreCase"} -> ~Includes(s, sub)
    [] operator \in {"NotStartsWith", "NotStartsWithIgnoreCase"} -> ~StartsWith(s, sub)
    [] operator \in {"NotEndsWith", "NotEndsWithIgnoreCase"} -> ~EndsWith(s, sub)

\* fieldValue > ruleValue or fieldValue < ruleValue, without the test for
\* falsy operands
RelationalUnguarded(operator, fieldValue, ruleValue) ==
  IF operator = "GreaterThen" THEN JSGreater(fieldValue, ruleValue)
  ELSE JSLess(fieldValue, ruleValue)

\* the GreaterThen and LessThen cases:
\* fieldValue && ruleValue ? fieldValue > ruleValue : false
Relational(operator, fieldValue, ruleValue) ==
  /\ Truthy(fieldValue) /\ Truthy(ruleValue)
  /\ IF operator = "GreaterThen" THEN JSGreater(fieldValue, ruleValue)
     ELSE JSLess(fieldValue, ruleValue)

\* the string test on the string forms as they are
CaseSensitiveTest(operator, fieldValue, ruleValue) ==
  StringTest(operator, fieldValue.s, ruleValue.s)

\* the string test of an IgnoreCase case without the lower-casing
IgnoreCaseTestAsWritten(operator, fieldValue, ruleValue) ==
  StringTest(operator, fieldValue.s, ruleValue.s)

\* the string test of an IgnoreCase case:
\* fieldValue.toString().toLowerCase() against ruleValue.toLowerCase()
IgnoreCaseTest(operator, fieldValue, ruleValue) ==
  StringTest(operator, ToLowerCase(fieldValue.s), ToLowerCase(ruleValue.s))

\* the switch over the operator; every case but Is and IsNot is
\* fieldValue && ruleValue ? ... : false
OperatorHolds(operator, fieldValue, ruleValue) ==
  CASE operator = "Is" -> StrictEquals(fieldValue, ruleValue)
    [] operator = "IsNot" -> ~StrictEquals(fieldValue, ruleValue)
    [] operator \in {"GreaterThen", "LessThen"} -> Relational(operator, fieldValue, ruleValue)
    [] operator \in CaseSensitiveOperators ->
         Truthy(fieldValue) /\ Truthy(ruleValue)
         /\ CaseSensitiveTest(operator, fieldValue, ruleValue)
    [] operator \in IgnoreCaseOperators ->
         Truthy(fieldValue) /\ Truthy(ruleValue)
         /\ IgnoreCaseTest(operator, fieldValue, ruleValue)

\* the switch throws: exhaustiveCheck for an operator without a case, and
\* ruleValue.toLowerCase() for a truthy rule value that is not a string
OperatorThrows(operator, fieldValue, ruleValue) ==
  \/ operator \notin KnownOperators
  \/ /\ operator \in IgnoreCaseOperators
     /\ Truthy(fieldValue) /\ Truthy(ruleValue)
     /\ ruleValue.t # "string"

\* one rule applied to the value of its target field
RuleHolds(rule, targetField, data) ==
  OperatorHolds(rule.operator, data[targetField.alias],
                coerceRuleValue(targetField, rule.value))

\* the callback of rules.map throws for the rule: no target field, no zod
\* type for the target field, or a throwing switch
RuleThrows(rule, targetField, data, custom) ==
  \/ targetField = NoField
  \/ mapFieldToZod(targetField, custom) \in MappingErrors
  \/ OperatorThrows(rule.operator, data[targetField.alias],
                    coerceRuleValue(targetField, rule.value))

RuleFulfilled(rule, f, data, cached) ==
  RuleHolds(rule, getFieldById(f, rule.field, cached), data)

\* every(...) for "All" only; any other logic type is fulfilled
LogicHoldsEveryOnly(logicType, appliedRules) ==
  IF logicType = "All" THEN \A i \in DOMAIN appliedRules : appliedRules[i] ELSE TRUE

\* every(...) and some(...) without the early return for an empty rule list
LogicHoldsNoEarlyReturn(logicType, appliedRules) ==
  IF logicType = "All" THEN \A i \in DOMAIN appliedRules : appliedRules[i]
  ELSE IF logicType = "Any" THEN \E i \in DOMAIN appliedRules : appliedRules[i]
  ELSE TRUE

\* the action type read as Show unless it is unset or unknown
ActionHoldsNoHide(actionType, isFulfilled) ==
  IF actionType \in {"Show", "Hide"} THEN isFulfilled ELSE TRUE

\* appliedRules.every(...) for "All", appliedRules.some(...) for "Any"
LogicHolds(logicType, appliedRules) ==
  IF appliedRules = <<>> THEN TRUE
  ELSE IF logicType = "All" THEN \A i \in DOMAIN appliedRules : appliedRules[i]
  ELSE IF logicType = "Any" THEN \E i \in DOMAIN appliedRules : appliedRules[i]
  ELSE TRUE

areAllRulesFulfilled(dto, f, data, cached) ==
  LogicHolds(dto.condition.logicType,
             [i \in DOMAIN dto.condition.rules |->
                RuleFulfilled(dto.condition.rules[i], f, data, cached)])

\* the action type applied to the outcome of the rules
ActionHolds(actionType, isFulfilled) ==
  IF actionType = "Show" THEN isFulfilled
  ELSE IF actionType = "Hide" THEN ~isFulfilled
  ELSE TRUE

isConditionFulfilled(dto, f, data, cached) ==
  ActionHolds(dto.condition.actionType, areAllRulesFulfilled(dto, f, data, cached))

\* rules.map runs the callback for every rule before the logic type is read,
\* so one throwing rule makes areAllRulesFulfilled throw
areAllRulesFulfilledThrows(dto, f, data, cached, custom) ==
  \E i \in DOMAIN dto.condition.rules :
    RuleThrows(dto.condition.rules[i], getFieldById(f, dto.condition.rules[i].field, cached),
               data, custom)

\* form.pages.filter(checkCondition)
VisiblePages(f, data, cached) ==
  SelectSeq(f.pages, LAMBDA dto : isConditionFulfilled(dto, f, data, cached))

\* .flatMap(page => page.fieldsets).filter(checkCondition)
VisibleFieldsets(pages, f, data, cached) ==
  SelectSeq(Concat([i \in DOMAIN pages |-> pages[i].fieldsets]),
            LAMBDA dto : isConditionFulfilled(dto, f, data, cached))

\* .flatMap(fieldset => fieldset.columns).flatMap(column => column.fields)
\* .filter(checkCondition)
VisibleFields(fieldsets, f, data, cached) ==
  SelectSeq(FieldsOfColumns(Concat([i \in DOMAIN fieldsets |-> fieldsets[i].columns])),
            LAMBDA dto : isConditionFulfilled(dto, f, data, cached))

\* the filter without the filter over the pages
filterFieldsOfAllPages(f, data, cached) ==
  VisibleFields(VisibleFieldsets(f.pages, f, data, cached), f, data, cached)

\* filterFieldsByConditions: the fields whose page, fieldset and own
\* condition are fulfilled, in document order
filterFieldsByConditions(f, data, cached) ==
  VisibleFields(VisibleFieldsets(VisiblePages(f, data, cached), f, data, cached),
                f, data, cached)

\* the number of pages whose condition is fulfilled
TotalPages(f, data, cached) == Len(VisiblePages(f, data, cached))

\* some condition of the page's fieldsets carries a rule
FieldsetsHaveRules(page) ==
  \E s \in DOMAIN page.fieldsets : page.fieldsets[s].condition.rules # <<>>

\* some condition of the fields carries a rule
FieldsHaveRules(fields) == \E i \in DOMAIN fields : fields[i].condition.rules # <<>>

\* some page, fieldset or field of the form carries a rule, so rendering
\* the form looks a field up by id
HasRules(f) ==
  \/ \E p \in DOMAIN f.pages : f.pages[p].condition.rules # <<>>
  \/ \E p \in DOMAIN f.pages : FieldsetsHaveRules(f.pages[p])
  \/ FieldsHaveRules(FlattenFields(f))

\* Array.prototype.sort with the comparator of sortZodIssuesByFieldAlias:
\* a stable insertion by rank
RECURSIVE InsertIssue(_, _, _)
InsertIssue(rank, sorted, issue) ==
  IF sorted = <<>> THEN << issue >>
  ELSE IF rank[issue.path] < rank[Head(sorted).path]
       THEN << issue >> \o sorted
       ELSE << Head(sorted) >> \o InsertIssue(rank, Tail(sorted), issue)

RECURSIVE SortIssues(_, _)
SortIssues(rank, issues) ==
  IF issues = <<>> THEN <<>>
  ELSE InsertIssue(rank, SortIssues(rank, SubSeq(issues, 1, Len(issues) - 1)), issues[Len(issues)])

\* allFields.map(field => field.alias)
FieldPaths(fields) == [i \in DOMAIN fields |-> fields[i].alias]

\* fieldPaths.indexOf(getFieldByZodIssue(form, issue).alias) for the paths of
\* the issues. The first getAllFields fills the cache, so the lookups of the
\* comparator read the cached index.
IssueRank(f, fieldPaths, issues) ==
  [p \in {issues[i].path : i \in DOMAIN issues} |->
     IndexOf(fieldPaths, getFieldByAlias(f, p, TRUE).alias)]

\* the issue list left in the order the validation pass produced it
sortZodIssuesKeepOrder(f, issues, cached) == issues

\* sortZodIssuesByFieldAlias: a stable sort by the position of the issue's
\* field in getAllFields (-1, here 0, when the field is not found); issues of
\* one field have equal paths and keep their order.
sortZodIssuesByFieldAlias(f, issues, cached) ==
  SortIssues(IssueRank(f, FieldPaths(getAllFields(f, cached)), issues), issues)

(* ----------------------- progression controller ------------------------ *)
VARIABLES
  form,                  \* props.form, immutable
  config,                \* shouldValidate, validateMode, reValidateMode
  dom,                   \* alias -> what FormData.get returns while the input is mounted
  internalData,          \* useState: the snapshot of the last change event
  deferredInternalData,  \* useDeferredValue(internalData)
  attemptCount,
  formIssues,
  summaryIssues,
  currentPage,
  cachedForms,           \* cachedForms.has(form) in field-utils.ts
  last                   \* what the last event did (observation only)

vars == << form, config, dom, internalData, deferredInternalData, attemptCount,
           formIssues, summaryIssues, currentPage, cachedForms, last >>

ValidateModes == {"onSubmit", "onBlur", "onChange", "all"}
ReValidateModes == {"onBlur", "onChange", "onSubmit"}

\* the defaults (no validation), and validation in two combinations of modes
ConfigSet ==
  {[shouldValidate |-> FALSE, validateMode |-> "onSubmit", reValidateMode |-> "onBlur",
    mapCustomFieldToZodType |-> "undefined"],
   [shouldValidate |-> TRUE, validateMode |-> "onSubmit", reValidateMode |-> "onChange",
    mapCustomFieldToZodType |-> "undefined"],
   [shouldValidate |-> TRUE, validateMode |-> "all", reValidateMode |-> "onBlur",
    mapCustomFieldToZodType |-> "undefined"]}

TextInputs == {"", "a"}

\* the values an input of the field can hold: the text typed, or "on" for a
\* ticked checkbox and null (no entry in FormData) for an unticked one
InputValues(field) ==
  IF ZodBase(field) = "ZodBoolean" THEN {Str("on"), Null} ELSE {Str(x) : x \in TextInputs}

\* the value of a freshly mounted input
DefaultInput(field) == IF ZodBase(field) = "ZodBoolean" THEN Null ELSE Str("")

\* fields.map(field => field.alias), as a set
AliasesOf(fields) == {fields[i].alias : i \in DOMAIN fields}

\* the Page, Fieldset and Field components return null when their condition,
\* evaluated by checkCondition on the deferred snapshot, is false
RenderedAliases(f, deferred, cached) == AliasesOf(filterFieldsByConditions(f, deferred, cached))

\* new FormData(form).get(key): only mounted inputs have an entry
FormDataGet(d, rendered, key) == IF key \in rendered THEN d[key] ELSE Null

\* processDef: the value stored under the key for the base type of the field
processDef(field, value) ==
  IF ZodBase(field) = "ZodBoolean"
  THEN IF value = Str("true") \/ value = Str("") THEN Bool(TRUE)
       ELSE IF value = Str("false") THEN Bool(FALSE)
       ELSE Bool(Truthy(value))
  ELSE value

\* the loop of coerceFormData over the keys of the schema
CoerceKeys(f, d, rendered) ==
  [key \in Aliases(f) |-> processDef(SchemaField(f, key), FormDataGet(d, rendered, key))]

\* coerceFormData(new FormData(form), schema)
coerceFormData(f, d, deferred, cached) ==
  CoerceKeys(f, d, RenderedAliases(f, deferred, cached))

\* useState({}): every key reads undefined
EmptyData(f) == [key \in Aliases(f) |-> Undefined]

\* validateFormData without the fieldName: every pass replaces the whole list
validateFormDataWholeList(f, issues, fieldName, prev, cached) ==
  IF issues = <<>> THEN <<>> ELSE sortZodIssuesByFieldAlias(f, issues, cached)

\* validateFormData: the issue list queued with setFormIssues, given the
\* issues of schema.safeParse(coercedData); fieldName "" is no fieldName
validateFormData(f, issues, fieldName, prev, cached) ==
  IF issues = <<>> THEN <<>>
  ELSE sortZodIssuesByFieldAlias(f,
         IF fieldName # ""
         THEN SelectSeq(prev, LAMBDA i : i.path # fieldName)
              \o SelectSeq(issues, LAMBDA i : i.path = fieldName)
         ELSE issues,
         cached)

\* issues.filter(issue => aliases.includes(getFieldByZodIssue(form, issue).alias))
IssuesWithin(f, issues, aliases, cached) ==
  SelectSeq(issues, LAMBDA i : getFieldByAlias(f, i.path, cached).alias \in aliases)

\* fields.filter(field => aliases.includes(field.alias))
FieldsWithin(fields, aliases) == SelectSeq(fields, LAMBDA x : x.alias \in aliases)

\* allFieldIssues.map(issue => getFieldByZodIssue(form, issue).alias)
IssueAliases(f, issues, cached) ==
  {getFieldByAlias(f, issues[i].path, cached).alias : i \in DOMAIN issues}

\* the last part of isCurrentPageValid: the check of the fields on the page
\* against the fields with issues, and the page-scoped issues
PageResult(f, allFieldIssues, fieldsOnPage, cached) ==
  [valid |-> ~(\E i \in DOMAIN fieldsOnPage :
                 fieldsOnPage[i].alias \in IssueAliases(f, allFieldIssues, cached)),
   pageIssues |-> IssuesWithin(f, allFieldIssues, AliasesOf(fieldsOnPage), cached)]

\* isCurrentPageValid after the visible aliases and the issues of the pass
\* are known; cached is the state of the cache once the issues were resolved
PageCheck(f, page, fieldsWithConditionsMet, issues, cached) ==
  PageResult(f, IssuesWithin(f, issues, fieldsWithConditionsMet, cached),
             FieldsWithin(getAllFieldsOnPage(f, page, cached), fieldsWithConditionsMet),
             cached)

\* resolving the first issue's field runs getAllFields and fills the caches
CachedAfter(cached, issues) == cached \/ issues # <<>>

\* isCurrentPageValid, on the deferred snapshot and the issues of its
\* validation pass: whether the page is valid, and the page-scoped issues it
\* would hand to the summary
isCurrentPageValid(f, page, deferred, issues, cached) ==
  PageCheck(f, page, RenderedAliases(f, deferred, cached), issues, CachedAfter(cached, issues))

\* focusFirstInvalidField reads the formIssues of the last render; the field
\* is focused when its input is mounted
focusFirstInvalidField(f, issues, deferred, cached) ==
  IF issues # <<>> /\ Head(issues).path \in RenderedAliases(f, deferred, cached)
  THEN Head(issues).path
  ELSE "none"

\* totalPages of the last render
totalPages == TotalPages(form, deferredInternalData, cachedForms)

\* the members of the first sequence that are members of the second
Mounted(onPage, rendered) == Range(onPage) \cap Range(rendered)

\* the inputs the user can reach: mounted, and on the page that is displayed
FieldsInReach ==
  IF currentPage + 1 \in DOMAIN form.pages
  THEN Mounted(AllFieldsOfPage(form.pages[currentPage + 1]),
               filterFieldsByConditions(form, deferredInternalData, cachedForms))
  ELSE {}

NoEvent ==
  [op |-> "init", field |-> "", blocked |-> FALSE, handed |-> FALSE,
   notified |-> FALSE, focus |-> "none"]

Init ==
  /\ form \in FormSet
  /\ config \in ConfigSet
  /\ dom = [key \in Aliases(form) |-> DefaultInput(SchemaField(form, key))]
  /\ internalData = EmptyData(form)
  /\ deferredInternalData = EmptyData(form)
  /\ attemptCount = 0
  /\ formIssues = <<>>
  /\ summaryIssues = <<>>
  /\ currentPage = 0
  /\ cachedForms = HasRules(form)
  /\ last = NoEvent

\* handleOnChange validates when the mode or an earlier attempt asks for it
validateOnChange ==
  \/ config.validateMode = "onChange"
  \/ config.validateMode = "all"
  \/ attemptCount > 0 /\ config.reValidateMode = "onChange"

\* handleOnBlur validates when the mode or an earlier attempt asks for it
validateOnBlur ==
  \/ config.validateMode = "onBlur"
  \/ config.validateMode = "all"
  \/ attemptCount > 0 /\ config.reValidateMode = "onBlur"

\* handleOnChange: the user changes the input of a field within reach
HandleOnChange(field, value) ==
  /\ value # dom[field.alias]
  /\ \E coercedData \in {coerceFormData(form, [dom EXCEPT ![field.alias] = value],
                                         deferredInternalData, cachedForms)} :
     \E issues \in {SafeParseIssues(form, coercedData)} :
       /\ dom' = [dom EXCEPT ![field.alias] = value]
       /\ internalData' = coercedData
       /\ IF config.shouldValidate /\ validateOnChange
          THEN /\ formIssues' = validateFormData(form, issues, field.alias, formIssues, cachedForms)
               /\ cachedForms' = CachedAfter(cachedForms, issues)
               /\ last' = [NoEvent EXCEPT !.op = "change", !.field = field.alias,
                                          !.notified = (issues = <<>>)]
          ELSE /\ UNCHANGED << formIssues, cachedForms >>
               /\ last' = [NoEvent EXCEPT !.op = "change", !.field = field.alias,
                                          !.notified = ~config.shouldValidate]
  /\ UNCHANGED << form, config, deferredInternalData, attemptCount, summaryIssues, currentPage >>

\* handleOnBlur: the user leaves the input of a field within reach. With
\* more than one page isCurrentPageValid runs a second, whole-form pass on
\* the deferred snapshot, and the update it queues ignores the one before it.
HandleOnBlur(field) ==
  /\ attemptCount < MaxAttempt
  /\ IF config.shouldValidate /\ validateOnBlur
     THEN \E issues \in {SafeParseIssues(form, coerceFormData(form, dom, deferredInternalData,
                                                             cachedForms))} :
          IF Len(form.pages) > 1
          THEN \E pass \in {SafeParseIssues(form, deferredInternalData)} :
               \E r \in {isCurrentPageValid(form, currentPage, deferredInternalData, pass,
                                            cachedForms)} :
                 /\ formIssues' = validateFormData(form, pass, "", formIssues, cachedForms)
                 /\ cachedForms' = CachedAfter(CachedAfter(cachedForms, issues), pass)
                 /\ attemptCount' = IF r.valid THEN attemptCount ELSE attemptCount + 1
                 /\ summaryIssues' = IF ~r.valid /\ form.showValidationSummary
                                     THEN r.pageIssues ELSE summaryIssues
                 /\ last' = [NoEvent EXCEPT !.op = "blur", !.field = field.alias,
                                            !.blocked = ~r.valid]
          ELSE /\ formIssues' = validateFormData(form, issues, field.alias, formIssues, cachedForms)
               /\ cachedForms' = CachedAfter(cachedForms, issues)
               /\ UNCHANGED << attemptCount, summaryIssues >>
               /\ last' = [NoEvent EXCEPT !.op = "blur", !.field = field.alias]
     ELSE /\ UNCHANGED << formIssues, cachedForms, attemptCount, summaryIssues >>
          /\ last' = [NoEvent EXCEPT !.op = "blur", !.field = field.alias]
  /\ UNCHANGED << form, config, dom, internalData, deferredInternalData, currentPage >>

\* handleNextPage, offered by the NextButton of the last render
HandleNextPage ==
  /\ totalPages > 1
  /\ currentPage # totalPages - 1
  /\ currentPage < MaxPageIndex
  /\ attemptCount < MaxAttempt
  /\ IF config.shouldValidate /\ config.validateMode \in {"onSubmit", "all"}
     THEN \E pass \in {SafeParseIssues(form, deferredInternalData)} :
          \E r \in {isCurrentPageValid(form, currentPage, deferredInternalData, pass,
                                       cachedForms)} :
            /\ formIssues' = validateFormData(form, pass, "", formIssues, cachedForms)
            /\ cachedForms' = CachedAfter(cachedForms, pass)
            /\ IF ~r.valid
               THEN /\ attemptCount' = attemptCount + 2
                    /\ summaryIssues' = IF form.showValidationSummary
                                        THEN r.pageIssues ELSE summaryIssues
                    /\ currentPage' = currentPage
                    /\ last' = [NoEvent EXCEPT !.op = "next", !.blocked = TRUE,
                                  !.focus = focusFirstInvalidField(form, formIssues,
                                              deferredInternalData, cachedForms)]
               ELSE /\ attemptCount' = 0
                    /\ currentPage' = currentPage + 1
                    /\ UNCHANGED summaryIssues
                    /\ last' = [NoEvent EXCEPT !.op = "next"]
     ELSE /\ currentPage' = currentPage + 1
          /\ UNCHANGED << formIssues, cachedForms, attemptCount, summaryIssues >>
          /\ last' = [NoEvent EXCEPT !.op = "next"]
  /\ UNCHANGED << form, config, dom, internalData, deferredInternalData >>

\* handlePreviousPage without the floor at page 0
handlePreviousPageNoFloor ==
  /\ totalPages > 1
  /\ currentPage' = currentPage - 1
  /\ last' = [NoEvent EXCEPT !.op = "previous"]
  /\ UNCHANGED << form, config, dom, internalData, deferredInternalData, attemptCount,
                  formIssues, summaryIssues, cachedForms >>

\* handlePreviousPage; the buttons are rendered when totalPages > 1. The
\* default PreviousButton is not shown at page 0; a PreviousButton passed by
\* the caller can be, and the handler keeps the index at 0 there.
HandlePreviousPage ==
  /\ totalPages > 1
  /\ currentPage' = IF currentPage = 0 THEN currentPage ELSE currentPage - 1
  /\ last' = [NoEvent EXCEPT !.op = "previous"]
  /\ UNCHANGED << form, config, dom, internalData, deferredInternalData, attemptCount,
                  formIssues, summaryIssues, cachedForms >>

\* the SubmitButton of the last render is offered
SubmitOffered == ~(totalPages > 1 /\ currentPage # totalPages - 1)

\* handleOnSubmit without the test of config.shouldValidate
HandleOnSubmitValidating ==
  /\ SubmitOffered
  /\ attemptCount < MaxAttempt
  /\ \E issues \in {SafeParseIssues(form, coerceFormData(form, dom, deferredInternalData,
                                                        cachedForms))} :
     \E sorted \in {validateFormData(form, issues, "", formIssues, cachedForms)} :
       /\ attemptCount' = attemptCount + 1
       /\ formIssues' = sorted
       /\ cachedForms' = CachedAfter(cachedForms, issues)
       /\ IF issues # <<>>
          THEN /\ summaryIssues' = IF form.showValidationSummary
                                   THEN sorted ELSE summaryIssues
               /\ last' = [NoEvent EXCEPT !.op = "submit", !.blocked = TRUE,
                             !.focus = focusFirstInvalidField(form, formIssues,
                                         deferredInternalData, cachedForms)]
          ELSE /\ summaryIssues' = <<>>
               /\ last' = [NoEvent EXCEPT !.op = "submit", !.handed = TRUE]
  /\ UNCHANGED << form, config, dom, internalData, deferredInternalData, currentPage >>

\* handleOnSubmit
HandleOnSubmit ==
  /\ SubmitOffered
  /\ attemptCount < MaxAttempt
  /\ IF config.shouldValidate
     THEN \E issues \in {SafeParseIssues(form, coerceFormData(form, dom, deferredInternalData,
                                                             cachedForms))} :
          \E sorted \in {validateFormData(form, issues, "", formIssues, cachedForms)} :
            /\ attemptCount' = attemptCount + 1
            /\ formIssues' = sorted
            /\ cachedForms' = CachedAfter(cachedForms, issues)
            /\ IF issues # <<>>
               THEN /\ summaryIssues' = IF form.showValidationSummary
                                        THEN sorted ELSE summaryIssues
                    /\ last' = [NoEvent EXCEPT !.op = "submit", !.blocked = TRUE,
                                  !.focus = focusFirstInvalidField(form, formIssues,
                                              deferredInternalData, cachedForms)]
               ELSE /\ summaryIssues' = <<>>
                    /\ last' = [NoEvent EXCEPT !.op = "submit", !.handed = TRUE]
     ELSE /\ UNCHANGED << attemptCount, formIssues, cachedForms, summaryIssues >>
          /\ last' = [NoEvent EXCEPT !.op = "submit", !.handed = TRUE]
  /\ UNCHANGED << form, config, dom, internalData, deferredInternalData, currentPage >>

\* the inputs that stay mounted keep their value; the others are unmounted
DomAfterRender(f, d, rendered) ==
  [key \in Aliases(f) |->
     IF key \in rendered THEN d[key] ELSE DefaultInput(SchemaField(f, key))]

\* the low-priority render in which useDeferredValue catches up; inputs whose
\* field is no longer rendered are unmounted and lose their value
DeferredRender ==
  /\ deferredInternalData # internalData
  /\ deferredInternalData' = internalData
  /\ dom' = DomAfterRender(form, dom, RenderedAliases(form, internalData, cachedForms))
  /\ last' = [NoEvent EXCEPT !.op = "render"]
  /\ UNCHANGED << form, config, internalData, attemptCount, formIssues, summaryIssues,
                  currentPage, cachedForms >>

Next ==
  \/ \E field \in FieldsInReach : \E value \in InputValues(field) :
       HandleOnChange(field, value)
  \/ \E field \in FieldsInReach : HandleOnBlur(field)
  \/ HandleNextPage
  \/ HandlePreviousPage
  \/ HandleOnSubmit
  \/ DeferredRender

Spec == Init /\ [][Next]_vars

TypeOK ==
  /\ currentPage \in 0..MaxPageIndex
  /\ attemptCount \in 0..(MaxAttempt + 1)

(* ---------------- the condition evaluator on its own ------------------- *)
\* the longest rule list of a condition
MaxRules == 3

\* the fields a rule can name
EvalTargets ==
  << FormField("t1", "text", "ShortAnswer", FALSE, "", NoCondition),
     FormField("c1", "flag", "Checkbox", FALSE, "", NoCondition),
     FormField("m1", "choices", "MultipleChoice", FALSE, "", NoCondition),
     FormField("n1", "hidden", "HiddenField", FALSE, "", NoCondition) >>

\* one page with the target fields and a field that carries the condition
EvalForm(condition) ==
  [name |-> "EvalForm", showValidationSummary |-> FALSE,
   pages |-> <<
     Page(<< Fieldset(<< Column(EvalTargets \o
                                << FormField("s1", "subject", "ShortAnswer", FALSE, "", condition) >>) >>,
                      NoCondition) >>, NoCondition) >>]

\* FieldType: the built-in field types
FieldTypes ==
  << "ShortAnswer", "LongAnswer", "Checkbox", "SingleChoice", "MultipleChoice",
     "DropdownList", "Date", "Password", "RichText", "FileUpload", "DataConsent",
     "HiddenField", "Recaptcha2", "RecaptchaV3WithScore", "TitleAndDescription" >>

\* a field type outside the built-in set
CustomFieldType == "Rating"

\* one page with one field of every built-in type and one of a type outside
\* the set, each named after its type
TypesForm ==
  [name |-> "TypesForm", showValidationSummary |-> FALSE,
   pages |-> <<
     Page(<< Fieldset(<< Column([i \in DOMAIN FieldTypes |->
                                  FormField("id-" \o FieldTypes[i], FieldTypes[i], FieldTypes[i],
                                            FALSE, "", NoCondition)]
                                \o << FormField("id-" \o CustomFieldType, CustomFieldType,
                                                CustomFieldType, FALSE, "", NoCondition) >>) >>,
                      NoCondition) >>, NoCondition) >>]

\* the ids a rule names: the targets, and an id no field has
RuleFieldIds == {"t1", "c1", "m1", "n1", "zz"}
\* the operators a rule names: the known ones, and one without a case
RuleOperators == KnownOperators \cup {"Matches"}
\* the values a rule holds; a rule without a value reads undefined
RuleValues == {Undefined, Str(""), Str("a"), Str("fra"), Str("on"), Str("undefined")}
\* the values a snapshot holds for a field
LiveValues ==
  {Undefined, Str(""), Str("a"), Str("FRANCE"), Bool(TRUE), Bool(FALSE),
   Arr(<< >>), Arr(<< "a" >>)}

\* the alias whose value the rule reads
RuleAlias(fieldId) ==
  IF \E i \in DOMAIN EvalTargets : EvalTargets[i].id = fieldId
  THEN EvalTargets[CHOOSE i \in DOMAIN EvalTargets : EvalTargets[i].id = fieldId].alias
  ELSE "text"

EvalData == EmptyData(EvalForm(NoCondition))

\* a condition of one rule, and a snapshot with a value for the rule's field
SingleRuleInputs ==
  {[form |-> EvalForm(Condition("Show", "All", << Rule(id, op, rv) >>)),
    data |-> [EvalData EXCEPT ![RuleAlias(id)] = v]] :
     id \in RuleFieldIds, op \in RuleOperators, rv \in RuleValues, v \in LiveValues}

\* two rules that evaluate, one without a target and one without a case
PoolRules ==
  {Rule("t1", "Is", Str("a")), Rule("c1", "Is", Str("on")),
   Rule("zz", "Is", Str("a")), Rule("t1", "Matches", Str("a"))}
RuleLists == UNION {[1..n -> PoolRules] : n \in 0..MaxRules}
LogicTypes == {"All", "Any", "undefined"}
ActionTypes == {"Show", "Hide", "undefined", "Toggle"}

\* a condition of any action type, logic type and rule list, and a snapshot
\* under which one or the other evaluating rule is true
RuleListInputs ==
  {[form |-> EvalForm(Condition(at, lt, rules)), data |-> d] :
     at \in ActionTypes, lt \in LogicTypes, rules \in RuleLists,
     d \in {[EvalData EXCEPT !["text"] = Str("a"), !["flag"] = Bool(FALSE)],
            [EvalData EXCEPT !["text"] = Str(""), !["flag"] = Bool(TRUE)]}}

\* Two pages; the first page has two fieldsets, the first of them with two
\* columns, and its second field has no id. No conditions.
TreeForm ==
  [name |-> "TreeForm", showValidationSummary |-> FALSE,
   pages |-> <<
     Page(<< Fieldset(<< Column(<< FormField("a1", "first", "ShortAnswer", FALSE, "", NoCondition) >>),
                         Column(<< FormField("", "second", "ShortAnswer", FALSE, "", NoCondition) >>) >>,
                      NoCondition),
             Fieldset(<< Column(<< FormField("a3", "third", "ShortAnswer", FALSE, "", NoCondition) >>) >>,
                      NoCondition) >>, NoCondition),
     Page(<< Fieldset(<< Column(<< FormField("a4", "fourth", "ShortAnswer", FALSE, "", NoCondition) >>) >>,
                      NoCondition) >>, NoCondition) >>]

EvalInputs ==
  SingleRuleInputs \cup RuleListInputs
  \cup {[form |-> TypesForm, data |-> EmptyData(TypesForm)],
         [form |-> TreeForm, data |-> EmptyData(TreeForm)]}

\* without a mapCustomFieldToZodType function, and with each kind of one
EvalConfigs ==
  {[shouldValidate |-> FALSE, validateMode |-> "onSubmit", reValidateMode |-> "onBlur",
    mapCustomFieldToZodType |-> custom] : custom \in CustomMappers}

\* what a call returned, or that it threw
NoOutcome ==
  [op |-> "init", field |-> "", threw |-> FALSE, isFulfilled |-> FALSE,
   visible |-> FALSE, zodType |-> "none", message |-> "",
   fields |-> <<>>, page |-> 0, memoized |-> FALSE]

\* a checkbox and a field that carries the condition
BooleanForm(condition) ==
  [name |-> "BooleanForm", showValidationSummary |-> FALSE,
   pages |-> <<
     Page(<< Fieldset(<< Column(<< FormField("c1", "flag", "Checkbox", FALSE, "", NoCondition),
                                   FormField("s1", "subject", "ShortAnswer", FALSE, "", condition) >>) >>,
                      NoCondition) >>, NoCondition) >>]

\* what FormData holds for the input of a boolean field
RawBooleanInputs == {Str("on"), Str("true"), Str("off"), Str("false"), Str("")}
\* the literals of a rule on a boolean field
BooleanRuleValues == {Str("on"), Str("true"), Bool(TRUE), Str("off"), Str("false"), Bool(FALSE)}

\* a rule on the checkbox, and the raw input of the checkbox before it is
\* coerced into the snapshot
RawInputs ==
  {[form |-> BooleanForm(Condition("Show", "All", << Rule("c1", op, rv) >>)),
    dom |-> [flag |-> raw, subject |-> Str("")]] :
     op \in {"Is", "IsNot"}, rv \in BooleanRuleValues, raw \in RawBooleanInputs}

EvalInit ==
  /\ \/ \E input \in EvalInputs :
          /\ form = input.form
          /\ internalData = input.data
          /\ deferredInternalData = input.data
          /\ dom = [key \in Aliases(form) |-> DefaultInput(SchemaField(form, key))]
     \/ \E input \in RawInputs :
          /\ form = input.form
          /\ internalData = EmptyData(form)
          /\ deferredInternalData = EmptyData(form)
          /\ dom = input.dom
  /\ config \in EvalConfigs
  /\ attemptCount = 0
  /\ formIssues = <<>>
  /\ summaryIssues = <<>>
  /\ currentPage = 0
  /\ cachedForms = FALSE
  /\ last = NoOutcome

\* checkCondition(dto) with the error of a rule caught and the element shown
CheckConditionCaught(dto) ==
  /\ last.op \in {"init", "coerceFormData"}
  /\ last' =
       IF areAllRulesFulfilledThrows(dto, form, internalData, cachedForms,
                                      config.mapCustomFieldToZodType)
       THEN [NoOutcome EXCEPT !.op = "isConditionFulfilled", !.field = dto.alias,
                              !.isFulfilled = TRUE, !.visible = TRUE]
       ELSE [NoOutcome EXCEPT !.op = "isConditionFulfilled", !.field = dto.alias,
                              !.isFulfilled = areAllRulesFulfilled(dto, form, internalData, cachedForms),
                              !.visible = isConditionFulfilled(dto, form, internalData, cachedForms)]
  /\ cachedForms' = (cachedForms \/ dto.condition.rules # <<>>)
  /\ UNCHANGED << form, config, dom, internalData, deferredInternalData, attemptCount,
                  formIssues, summaryIssues, currentPage >>

\* checkCondition(dto): isConditionFulfilled on the form and the snapshot
CheckCondition(dto) ==
  /\ last.op \in {"init", "coerceFormData"}
  /\ last' =
       IF areAllRulesFulfilledThrows(dto, form, internalData, cachedForms,
                                      config.mapCustomFieldToZodType)
       THEN [NoOutcome EXCEPT !.op = "isConditionFulfilled", !.field = dto.alias,
                              !.threw = TRUE]
       ELSE [NoOutcome EXCEPT !.op = "isConditionFulfilled", !.field = dto.alias,
                              !.isFulfilled = areAllRulesFulfilled(dto, form, internalData, cachedForms),
                              !.visible = isConditionFulfilled(dto, form, internalData, cachedForms)]
  /\ cachedForms' = (cachedForms \/ dto.condition.rules # <<>>)
  /\ UNCHANGED << form, config, dom, internalData, deferredInternalData, attemptCount,
                  formIssues, summaryIssues, currentPage >>

\* mapFieldToZod(field, config.mapCustomFieldToZodType)
MapFieldToZod(field) ==
  /\ last.op = "init"
  /\ last' = [NoOutcome EXCEPT
                !.op = "mapFieldToZod", !.field = field.alias,
                !.threw = (mapFieldToZod(field, config.mapCustomFieldToZodType) \in MappingErrors),
                !.zodType = mapFieldToZod(field, config.mapCustomFieldToZodType),
                !.message = mapFieldToZodMessage(field, config.mapCustomFieldToZodType)]
  /\ UNCHANGED << form, config, dom, internalData, deferredInternalData, attemptCount,
                  formIssues, summaryIssues, currentPage, cachedForms >>

\* setInternalData(coerceFormData(new FormData(form), schema)) of the first
\* change event: the raw inputs become the snapshot
CoerceFormData ==
  /\ last.op = "init"
  /\ internalData = EmptyData(form)
  /\ dom # [key \in Aliases(form) |-> DefaultInput(SchemaField(form, key))]
  /\ internalData' = coerceFormData(form, dom, deferredInternalData, cachedForms)
  /\ deferredInternalData' = internalData'
  /\ cachedForms' = TRUE
  /\ last' = [NoOutcome EXCEPT !.op = "coerceFormData"]
  /\ UNCHANGED << form, config, dom, attemptCount, formIssues, summaryIssues, currentPage >>

\* getAllFields(form); a first call fills the caches
GetAllFields ==
  /\ last.op \in {"init", "getAllFields"}
  /\ last' = [NoOutcome EXCEPT !.op = "getAllFields", !.memoized = cachedForms,
                               !.fields = getAllFields(form, cachedForms)]
  /\ cachedForms' = TRUE
  /\ UNCHANGED << form, config, dom, internalData, deferredInternalData, attemptCount,
                  formIssues, summaryIssues, currentPage >>

\* getAllFieldsOnPage(form.pages[pageIndex]), before or after getAllFields
GetAllFieldsOnPage(pageIndex) ==
  /\ last.op \in {"init", "getAllFields"}
  /\ last' = [NoOutcome EXCEPT !.op = "getAllFieldsOnPage", !.page = pageIndex,
                               !.memoized = cachedForms,
                               !.fields = getAllFieldsOnPage(form, pageIndex, cachedForms)]
  /\ UNCHANGED << form, config, dom, internalData, deferredInternalData, attemptCount,
                  formIssues, summaryIssues, currentPage, cachedForms >>

EvalNext ==
  \/ CoerceFormData
  \/ GetAllFields
  \/ \E pageIndex \in 0..(Len(form.pages) - 1) : GetAllFieldsOnPage(pageIndex)
  \/ \E dto \in Range(FlattenFields(form)) : CheckCondition(dto)
  \/ \E field \in Range(FlattenFields(form)) : MapFieldToZod(field)

EvalSpec == EvalInit /\ [][EvalNext]_vars

(* ------------------------------ properties ----------------------------- *)
\* the next-page request runs the validation pass
ValidatesOnNext == config.shouldValidate /\ config.validateMode \in {"onSubmit", "all"}

\* the aliases of the fields that are visible under the snapshot
VisibleAliases(data) == AliasesOf(filterFieldsByConditions(form, data, cachedForms))

\* the aliases of all the fields of the current page
PageAliases ==
  IF currentPage + 1 \in DOMAIN form.pages
  THEN AliasesOf(AllFieldsOfPage(form.pages[currentPage + 1]))
  ELSE {}

\* the aliases of the fields that have an issue
IssuePaths(issues) == {issues[i].path : i \in DOMAIN issues}

\* the snapshot a submit event validates
SubmitData == coerceFormData(form, dom, deferredInternalData, cachedForms)

\* C1: with validation enabled, a next-page request leaves the page index
\* unchanged if and only if a visible field of the current page has an
\* issue in the validated snapshot.
C1_NextBlockedIffVisibleIssueOnPage ==
  [][(last'.op = "next" /\ ValidatesOnNext) =>
       ((currentPage' = currentPage) <=>
          (PageAliases \cap VisibleAliases(deferredInternalData)
             \cap IssuePaths(SafeParseIssues(form, deferredInternalData)) # {}))]_vars

\* C2: a submit event records no issue for a field that is hidden in the
\* submitted snapshot, and a submit whose issues would all belong to hidden
\* fields is handed to onSubmit.
C2_HiddenFieldHasNoIssue ==
  [][(last'.op = "submit" /\ config.shouldValidate) =>
       /\ IssuePaths(formIssues') \subseteq VisibleAliases(SubmitData)
       /\ (IssuePaths(SafeParseIssues(form, SubmitData)) \cap VisibleAliases(SubmitData) = {}
             => last'.handed)]_vars

\* C3: the page index is within 0..totalPages-1 in every reachable state.
C3_PageIndexWithinTotalPages == currentPage \in 0..(totalPages - 1)

\* C4: after a next-page request that is not blocked, the condition of the
\* current page is fulfilled.
C4_NextLandsOnVisiblePage ==
  [][(last'.op = "next" /\ ~last'.blocked) =>
       /\ currentPage' + 1 \in DOMAIN form.pages
       /\ isConditionFulfilled(form.pages[currentPage' + 1], form, deferredInternalData,
                               cachedForms)]_vars

\* C5: with validation enabled, a submit event is handed to onSubmit if and
\* only if no visible field has an issue in the submitted snapshot.
C5_SubmitHandedIffNoVisibleIssue ==
  [][(last'.op = "submit" /\ config.shouldValidate) =>
       (last'.handed <=>
          IssuePaths(SafeParseIssues(form, SubmitData)) \cap VisibleAliases(SubmitData) = {})]_vars

\* C6: on a failed submit the focused field is the one the focusing rule
\* picks from the issues of the validation pass run by that submit.
C6_FocusIsFirstInvalidOfThisPass ==
  [][(last'.op = "submit" /\ last'.blocked) =>
       last'.focus = focusFirstInvalidField(form, formIssues', deferredInternalData,
                                            cachedForms)]_vars

\* C7: a blocked next-page request leaves the page index unchanged, raises
\* the attempt counter and, for a form with a validation summary, sets the
\* summary issues to the issues of the visible fields of the current page.
C7_BlockedNextPageScopedSummary ==
  [][(last'.op = "next" /\ last'.blocked) =>
       /\ currentPage' = currentPage
       /\ attemptCount' > attemptCount
       /\ (form.showValidationSummary =>
             Range(summaryIssues') =
               {i \in Range(SafeParseIssues(form, deferredInternalData)) :
                  i.path \in PageAliases \cap VisibleAliases(deferredInternalData)})]_vars

\* C8: a next-page request that is not blocked empties the displayed issues,
\* raises the page index by one and resets the attempt counter to 0.
C8_UnblockedNextClearsIssues ==
  [][(last'.op = "next" /\ ~last'.blocked) =>
       /\ formIssues' = <<>>
       /\ currentPage' = currentPage + 1
       /\ attemptCount' = 0]_vars

\* C9: a previous-page request is possible whenever the button is rendered,
\* lowers the page index by one with a floor of 0, runs no validation and
\* leaves the issues, the summary, the attempt counter and the snapshot as
\* they were.
C9_PreviousPageFrame ==
  [][last'.op = "previous" =>
       /\ currentPage' = (IF currentPage = 0 THEN 0 ELSE currentPage - 1)
       /\ formIssues' = formIssues
       /\ summaryIssues' = summaryIssues
       /\ attemptCount' = attemptCount
       /\ internalData' = internalData
       /\ deferredInternalData' = deferredInternalData
       /\ cachedForms' = cachedForms]_vars

\* a previous-page request at index 0 of a form that holds issues after a
\* failed attempt
C9_Witness ==
  /\ last.op = "previous"
  /\ currentPage = 0
  /\ formIssues # <<>>
  /\ attemptCount > 0

\* the issues of one field, in the order of the list
IssuesOf(issues, alias) == SelectSeq(issues, LAMBDA i : i.path = alias)

\* the change event runs validateFormData for the changed field
ChangeValidated == last'.op = "change" /\ config.shouldValidate /\ validateOnChange

DocumentPosition(alias) == IndexOf(FieldPaths(FlattenFields(form)), alias)

\* C11: the displayed issue list is ordered by the position of each issue's
\* field in document order; issues of one field share their path, so the
\* tie-break by path leaves them adjacent.
C11_IssuesInDocumentOrder ==
  \A i, j \in DOMAIN formIssues :
    i < j => DocumentPosition(formIssues[i].path) <= DocumentPosition(formIssues[j].path)

\* a validation pass for one field that appended the issue of an earlier
\* field behind the kept issues of later fields before sorting
C11_Witness ==
  /\ last.op \in {"change", "blur"}
  /\ Len(formIssues) >= 2
  /\ formIssues[1].path = last.field
  /\ \E i \in DOMAIN formIssues : formIssues[i].path # last.field

(* --------------- properties of the condition evaluator ------------------ *)
\* the condition of the page, fieldset or field the call was given
EvaluatedCondition == getFieldByAlias(form, last.field, FALSE).condition

\* the call evaluated a condition and returned or threw
ConditionEvaluated == last.op = "isConditionFulfilled"

\* the call evaluated a condition of logic type All with one rule
SingleRuleEvaluated ==
  /\ ConditionEvaluated
  /\ Len(EvaluatedCondition.rules) = 1
  /\ EvaluatedCondition.logicType = "All"

\* the one rule, its target field, and the two values the switch compares
TheRule == EvaluatedCondition.rules[1]
TheTarget == getFieldById(form, TheRule.field, FALSE)
LiveValue == internalData[TheTarget.alias]
CoercedRuleValue == coerceRuleValue(TheTarget, TheRule.value)

\* the rule reaches the switch: its target is a field of the form that
\* mapFieldToZod has a type for
TargetMapped ==
  /\ TheTarget # NoField
  /\ mapFieldToZod(TheTarget, config.mapCustomFieldToZodType) \notin MappingErrors

NegatedOperators ==
  {"NotContains", "NotStartsWith", "NotEndsWith",
   "NotContainsIgnoreCase", "NotStartsWithIgnoreCase", "NotEndsWithIgnoreCase"}

\* the positive operator of a negated one
PositiveOf(operator) ==
  CASE operator = "NotContains" -> "Contains"
    [] operator = "NotStartsWith" -> "StartsWith"
    [] operator = "NotEndsWith" -> "EndsWith"
    [] operator = "NotContainsIgnoreCase" -> "ContainsIgnoreCase"
    [] operator = "NotStartsWithIgnoreCase" -> "StartsWithIgnoreCase"
    [] operator = "NotEndsWithIgnoreCase" -> "EndsWithIgnoreCase"

\* C12, as stated: for every live value and rule value, a negated operator
\* gives the negation of what its positive operator gives on the same
\* inputs.
C12_NegatedIsNegationOfPositive ==
  (SingleRuleEvaluated /\ ~last.threw /\ TheRule.operator \in NegatedOperators)
    => last.isFulfilled = ~OperatorHolds(PositiveOf(TheRule.operator), LiveValue, CoercedRuleValue)

\* every rule of the evaluated condition, applied on its own
EachRuleHolds ==
  [i \in DOMAIN EvaluatedCondition.rules |->
     RuleFulfilled(EvaluatedCondition.rules[i], form, internalData, FALSE)]

\* C13: for a non-empty rule list, logic type All is fulfilled exactly when
\* every rule is true and logic type Any exactly when at least one rule is.
C13_AllEveryAnySome ==
  (ConditionEvaluated /\ ~last.threw /\ EvaluatedCondition.rules # <<>>)
    => /\ EvaluatedCondition.logicType = "All"
            => (last.isFulfilled <=> \A i \in DOMAIN EachRuleHolds : EachRuleHolds[i])
       /\ EvaluatedCondition.logicType = "Any"
            => (last.isFulfilled <=> \E i \in DOMAIN EachRuleHolds : EachRuleHolds[i])

\* logic type Any over two rules of which one is true and one false
C13_Witness ==
  /\ ConditionEvaluated /\ ~last.threw
  /\ EvaluatedCondition.logicType = "Any"
  /\ Len(EvaluatedCondition.rules) >= 2
  /\ \E i \in DOMAIN EachRuleHolds : EachRuleHolds[i]
  /\ \E i \in DOMAIN EachRuleHolds : ~EachRuleHolds[i]
  /\ last.isFulfilled

\* C14: a condition with an empty or absent rule list is fulfilled, whatever
\* its logic type and the snapshot.
C14_EmptyRulesFulfilled ==
  (ConditionEvaluated /\ EvaluatedCondition.rules = <<>>)
    => ~last.threw /\ last.isFulfilled

\* logic type Any over an empty rule list
C14_Witness ==
  /\ ConditionEvaluated
  /\ EvaluatedCondition.rules = <<>>
  /\ EvaluatedCondition.logicType = "Any"
  /\ last.isFulfilled

\* C15: Show is visible exactly when the rules are fulfilled, Hide exactly
\* when they are not, and a missing condition or an unset or unknown action
\* type is visible.
C15_VisibleByActionType ==
  (ConditionEvaluated /\ ~last.threw)
    => /\ EvaluatedCondition.actionType = "Show" => (last.visible <=> last.isFulfilled)
       /\ EvaluatedCondition.actionType = "Hide" => (last.visible <=> ~last.isFulfilled)
       /\ EvaluatedCondition.actionType \notin {"Show", "Hide"} => last.visible

\* action type Hide over fulfilled rules hides
C15_Witness ==
  /\ ConditionEvaluated /\ ~last.threw
  /\ EvaluatedCondition.actionType = "Hide"
  /\ EvaluatedCondition.rules # <<>>
  /\ last.isFulfilled
  /\ ~last.visible

\* C16, as stated: Is is true exactly when the string form of the live value
\* equals the string form of the coerced rule value, and IsNot exactly when
\* they differ.
C16_IsComparesStringForms ==
  (SingleRuleEvaluated /\ ~last.threw)
    => /\ TheRule.operator = "Is" => (last.isFulfilled <=> LiveValue.s = CoercedRuleValue.s)
       /\ TheRule.operator = "IsNot" => (last.isFulfilled <=> LiveValue.s # CoercedRuleValue.s)

\* the two values have no order: they are not two strings and one of them is
\* not a number
NotComparable(a, b) ==
  /\ ~(ToPrimitive(a).t = "string" /\ ToPrimitive(b).t = "string")
  /\ ToNumber(ToPrimitive(a)).nan \/ ToNumber(ToPrimitive(b)).nan

\* C17: a GreaterThen or LessThen rule on a field of the form does not throw,
\* and is false whenever the live value or the rule value is falsy or the
\* two have no order.
C17_RelationalFalseOnFalsy ==
  (SingleRuleEvaluated /\ TargetMapped /\ TheRule.operator \in {"GreaterThen", "LessThen"})
    => /\ ~last.threw
       /\ (~Truthy(LiveValue) \/ ~Truthy(CoercedRuleValue) \/ NotComparable(LiveValue, CoercedRuleValue))
            => ~last.isFulfilled

\* a GreaterThen rule whose rule value is empty while the live value is not
C17_Witness ==
  /\ SingleRuleEvaluated /\ TargetMapped
  /\ TheRule.operator = "GreaterThen"
  /\ Truthy(LiveValue) /\ ~Truthy(CoercedRuleValue)
  /\ ~last.threw /\ ~last.isFulfilled

\* the case-sensitive operator of an IgnoreCase one
CaseSensitiveOf(operator) ==
  CASE operator = "ContainsIgnoreCase" -> "Contains"
    [] operator = "StartsWithIgnoreCase" -> "StartsWith"
    [] operator = "EndsWithIgnoreCase" -> "EndsWith"
    [] operator = "NotContainsIgnoreCase" -> "NotContains"
    [] operator = "NotStartsWithIgnoreCase" -> "NotStartsWith"
    [] operator = "NotEndsWithIgnoreCase" -> "NotEndsWith"

\* the value with its string form lower-cased; a value that is no string
\* and no array of strings has no lower-case form and stays as it is
LowerCased(v) == IF v.t \in {"string", "array"} THEN [v EXCEPT !.s = ToLowerCase(v.s)] ELSE v

BadRule(rule) ==
  \/ getFieldById(form, rule.field, FALSE) = NoField
  \/ rule.operator \notin KnownOperators

\* C19: a condition that holds a rule without a target field in the form, or
\* with an unknown operator, throws, whatever the snapshot, the logic type
\* and the other rules.
C19_BadRuleThrows ==
  (ConditionEvaluated /\ \E i \in DOMAIN EvaluatedCondition.rules : BadRule(EvaluatedCondition.rules[i]))
    => last.threw

\* logic type Any, a first rule that is true and a later rule that is bad
C19_Witness ==
  /\ ConditionEvaluated
  /\ EvaluatedCondition.logicType = "Any"
  /\ Len(EvaluatedCondition.rules) >= 2
  /\ ~BadRule(EvaluatedCondition.rules[1])
  /\ RuleFulfilled(EvaluatedCondition.rules[1], form, internalData, FALSE)
  /\ BadRule(EvaluatedCondition.rules[2])
  /\ last.threw

\* C20, as stated: mapping a field of a built-in type without a custom
\* mapper succeeds.
C20_BuiltInTypesMap ==
  (/\ last.op = "mapFieldToZod"
   /\ config.mapCustomFieldToZodType = "undefined"
   /\ getFieldByAlias(form, last.field, FALSE).type \in Range(FieldTypes))
    => ~last.threw

\* the field the call mapped
MappedField == getFieldByAlias(form, last.field, FALSE)

\* C21: mapping a field of a type outside the built-in set throws an error
\* whose message names the type when no custom mapper is passed, when the
\* mapper returns nothing or when the mapper throws; otherwise the mapper's
\* result is the zod type of the field.
C21_CustomTypeDelegated ==
  (last.op = "mapFieldToZod" /\ MappedField.type \notin Range(FieldTypes))
    => IF config.mapCustomFieldToZodType = "returns"
       THEN ~last.threw /\ last.zodType = "ZodCustom"
       ELSE /\ last.threw
            /\ last.zodType \in MappingErrors
            /\ EndsWith(last.message, MappedField.type)

\* a custom type mapped with a custom mapper that throws
C21_Witness ==
  /\ last.op = "mapFieldToZod"
  /\ MappedField.type = CustomFieldType
  /\ config.mapCustomFieldToZodType = "throws"
  /\ last.threw
  /\ last.message = "Zod mapping failed for custom field: Rating"

\* the forms of true and the forms of false of a boolean field
TrueForms == {Str("on"), Str("true"), Bool(TRUE)}
FalseForms == {Str("off"), Str("false"), Bool(FALSE)}

\* the raw input and the rule literal are forms of the same boolean
SameBoolean(raw, literal) ==
  \/ raw \in TrueForms /\ literal \in TrueForms
  \/ raw \in FalseForms /\ literal \in FalseForms

\* the call evaluated one rule on the checkbox against a snapshot that was
\* coerced from the raw input
RawRuleEvaluated ==
  /\ SingleRuleEvaluated /\ ~last.threw
  /\ form.name = "BooleanForm"
  /\ dom["flag"] \in TrueForms \cup FalseForms
  /\ LiveValue = processDef(TheTarget, dom["flag"])

\* C22, as stated: on a boolean field an Is rule is true exactly when the raw
\* input and the rule literal are forms of the same boolean, whichever form
\* either side takes, and an IsNot rule exactly when they are not.
C22_BooleanFormsInterchangeable ==
  RawRuleEvaluated
    => /\ TheRule.operator = "Is" => (last.isFulfilled <=> SameBoolean(dom["flag"], TheRule.value))
       /\ TheRule.operator = "IsNot" => (last.isFulfilled <=> ~SameBoolean(dom["flag"], TheRule.value))

\* C23, as stated: getAllFields returns every field of the form in document
\* order, on a first call and on every later call, also when a field has no
\* id.
C23_GetAllFieldsDocumentOrder ==
  last.op = "getAllFields" => last.fields = FlattenFields(form)

\* C26, as stated: getAllFieldsOnPage returns every field of every fieldset
\* and column of the page in document order, whether or not getAllFields has
\* run before it.
C26_PageFieldsDocumentOrder ==
  last.op = "getAllFieldsOnPage" => last.fields = AllFieldsOfPage(form.pages[last.page + 1])

\* the event runs isCurrentPageValid: a next-page request that validates, or
\* a blur that validates in a form of more than one page
PageDecisionTaken ==
  \/ last'.op = "next" /\ ValidatesOnNext
  \/ last'.op = "blur" /\ config.shouldValidate /\ validateOnBlur /\ Len(form.pages) > 1

\* isCurrentPageValid computed from the snapshot of the most recent change
\* event
EagerPageValid ==
  isCurrentPageValid(form, currentPage, internalData, SafeParseIssues(form, internalData),
                     cachedForms).valid

\* C24, as stated: the page-validity decision of a next-page request or a
\* blur equals the one computed from the snapshot of the most recent change
\* event.
C24_PageDecisionFromLatestSnapshot ==
  [][PageDecisionTaken => (last'.blocked <=> ~EagerPageValid)]_vars


\* the snapshots a validation pass of the form reads
Snapshots == {internalData, deferredInternalData, SubmitData}

\* the visible, required text fields that hold the empty string in the
\* snapshot
RequiredEmptyText(data) ==
  {field \in Range(filterFieldsByConditions(form, data, cachedForms)) :
     field.required /\ field.type \in StringTypes /\ data[field.alias] = Str("")}

\* C25: validating a snapshot in which a visible, required text field holds
\* the empty string yields an issue on the alias of the field that carries
\* its required message.
C25_RequiredEmptyTextHasIssue ==
  \A data \in Snapshots :
    \A field \in RequiredEmptyText(data) :
      Issue(field, "too_small", field.requiredErrorMessage)
        \in Range(SafeParseIssues(form, data))

C25_Witness ==
  /\ form.name = "FormConditions"
  /\ \E field \in RequiredEmptyText(internalData) :
       /\ field.alias = "extra"
       /\ Issue(field, "too_small", "Please provide a value for extra")
            \in Range(SafeParseIssues(form, internalData))


\* the dto's condition is fulfilled under the snapshot
Visible(dto, data) == isConditionFulfilled(dto, form, data, cachedForms)

\* the fields of the fieldset that are visible themselves
VisibleInFieldset(fieldset, data) ==
  UNION {{fieldset.columns[c].fields[i] : i \in DOMAIN fieldset.columns[c].fields}
           : c \in DOMAIN fieldset.columns} \cap {field \in Range(FlattenFields(form)) :
                                                    Visible(field, data)}

\* the visible fields of the visible fieldsets of the page
VisibleInPage(page, data) ==
  UNION {VisibleInFieldset(page.fieldsets[s], data) :
           s \in {s \in DOMAIN page.fieldsets : Visible(page.fieldsets[s], data)}}

\* the fields whose page, fieldset and own condition are all fulfilled under
\* the snapshot
VisibleInTree(data) ==
  UNION {VisibleInPage(form.pages[p], data) :
           p \in {p \in DOMAIN form.pages : Visible(form.pages[p], data)}}

\* C27: filterFieldsByConditions returns, in document order, exactly the
\* fields whose page, fieldset and own condition are all fulfilled under the
\* snapshot.
C27_VisibleIffPageFieldsetFieldVisible ==
  \A data \in Snapshots :
    filterFieldsByConditions(form, data, cachedForms)
      = SelectSeq(FlattenFields(form), LAMBDA field : field \in VisibleInTree(data))

C27_Witness ==
  /\ form.name = "FormConditions"
  /\ internalData["toggle"] = Bool(TRUE)
  /\ [i \in 1..3 |-> filterFieldsByConditions(form, internalData, cachedForms)[i].alias]
       = << "toggle", "extra", "code" >>
  /\ Len(filterFieldsByConditions(form, internalData, cachedForms)) = 3


(* ------------------- repeated next-page requests ----------------------- *)
\* the values the inputs of the form can hold
AllDoms(f) ==
  {d \in [Aliases(f) -> {Str(x) : x \in TextInputs} \cup {Str("on"), Null}] :
     \A key \in Aliases(f) : d[key] \in InputValues(SchemaField(f, key))}

\* the inputs and the snapshot agree: the inputs that are not rendered under
\* the snapshot are unmounted, and the snapshot is the one the inputs give
Settled(f, d, data, cached) ==
  /\ d = DomAfterRender(f, d, RenderedAliases(f, data, cached))
  /\ data = coerceFormData(f, d, data, cached)

\* the form on page 0 after the user has filled it in and every render has
\* caught up
PagingInit ==
  /\ form \in FormSet
  /\ config \in ConfigSet
  /\ cachedForms \in {HasRules(form), TRUE}
  /\ dom \in AllDoms(form)
  /\ internalData \in {CoerceKeys(form, dom, rendered) : rendered \in SUBSET Aliases(form)}
  /\ Settled(form, dom, internalData, cachedForms)
  /\ deferredInternalData = internalData
  /\ attemptCount = 0
  /\ formIssues = <<>>
  /\ summaryIssues = <<>>
  /\ currentPage = 0
  /\ last = NoEvent

\* the user clicks the NextButton
PagingNext == HandleNextPage

\* the NextButton of the last render is offered and the handler can run
NextOffered ==
  /\ totalPages > 1
  /\ currentPage # totalPages - 1
  /\ currentPage < MaxPageIndex
  /\ attemptCount < MaxAttempt

\* the records a next-page request can leave
NextEvents ==
  {[NoEvent EXCEPT !.op = "next", !.blocked = blocked, !.focus = focus] :
     blocked \in BOOLEAN, focus \in Aliases(form) \cup {"none"}}

\* a click on the NextButton, as the record of the last event shows it
NextClick == NextOffered /\ last' \in NextEvents

\* the user goes on clicking the NextButton while it is rendered: no run stops
\* in a state in which the button is offered
PagingSpec == PagingInit /\ [][PagingNext]_vars /\ WF_last(NextClick)

\* no visible field has an issue in the snapshot
AllVisibleValid ==
  IssuePaths(SafeParseIssues(form, deferredInternalData))
    \cap VisibleAliases(deferredInternalData) = {}

\* the page exists and its condition is fulfilled
PageVisible(p) == p \in DOMAIN form.pages /\ Visible(form.pages[p], deferredInternalData)

\* the page of that index is displayed
PageShown(p) == currentPage = p - 1 /\ PageVisible(p)

\* the last page whose condition is fulfilled is displayed
LastVisiblePageShown ==
  /\ PageShown(currentPage + 1)
  /\ \A p \in DOMAIN form.pages : p > currentPage + 1 => ~PageVisible(p)

\* page 0 of a form of several visible pages whose visible fields are valid
PagingStart == last.op = "init" /\ currentPage = 0 /\ totalPages > 1 /\ AllVisibleValid

\* C28, as stated: in a form of several pages whose visible fields are all
\* valid, next-page requests repeated from page 0 eventually show every page
\* whose condition is fulfilled, and end with the submit control offered on
\* the last visible page; it is offered on no earlier page.
C28_NextReachesEveryVisiblePage ==
  /\ \A p \in 1..(MaxPageIndex + 1) : (PagingStart /\ PageVisible(p)) ~> PageShown(p)
  /\ PagingStart ~> [](SubmitOffered /\ LastVisiblePageShown)
  /\ []((totalPages > 1 /\ AllVisibleValid /\ SubmitOffered) => LastVisiblePageShown)


\* C29: with shouldValidate false no event is blocked: a next-page request
\* advances, a submit is handed to onSubmit, and the issue list and the
\* summary issues are empty in every reachable state.
C29_NoValidationNeverBlocks ==
  /\ [](~config.shouldValidate => (formIssues = <<>> /\ summaryIssues = <<>>))
  /\ [][~config.shouldValidate =>
          /\ ~last'.blocked
          /\ last'.op = "next" => currentPage' = currentPage + 1
          /\ last'.op = "submit" => last'.handed]_vars

C29_Witness ==
  /\ ~config.shouldValidate
  /\ last.op = "submit"
  /\ last.handed
  /\ currentPage > 0
  /\ SafeParseIssues(form, SubmitData) # <<>>
  /\ formIssues = <<>>


\* the validation pass a change event would run finds an issue
ChangeFails ==
  SafeParseIssues(form, coerceFormData(form, dom', deferredInternalData, cachedForms)) # <<>>

\* the change event runs a validation pass and the pass fails
ChangeRevalidationFails == config.shouldValidate /\ validateOnChange /\ ChangeFails

\* C30, as stated: a change event hands the event to onChange unless the
\* validation pass it runs fails, whether validation is disabled, enabled
\* without a pass on change, or enabled with a pass that succeeds.
C30_OnChangeUnlessRevalidationFails ==
  [][last'.op = "change" => (last'.notified <=> ~ChangeRevalidationFails)]_vars

=============================================================================
